---- MODULE Spec2Model ----
(***************************************************************************)
(* wradlib.qual: beam_height_ft, beam_height_ft_doviak, pulse_volume and   *)
(* beam_block_frac, modelled on IEEE-754 binary64 values as numpy and      *)
(* Python compute them.                                                    *)
(*                                                                         *)
(* Layers, bottom up:                                                      *)
(*   Big*  natural numbers of any size (the significands and the working   *)
(*         precision of the elementary functions);                         *)
(*   F*    binary64 values and their correctly rounded operations;         *)
(*   P*    Python / numpy operands (a Python float, a numpy scalar, a 1-D  *)
(*         ndarray, or a raised exception) and the operators the source    *)
(*         applies to them, broadcasting included;                         *)
(*   the four functions of qual.py, written operator by operator;          *)
(*   the state machine: a pending call, then its result.                   *)
(***************************************************************************)
EXTENDS Integers, Sequences, FiniteSets, Bags, TLC

(***************************************************************************)
(* Big naturals: little-endian sequences of limbs in 0..Base-1, without a  *)
(* leading zero limb; <<>> is zero.  The operations are written without    *)
(* recursion over the limbs (carries by look-ahead), the loops that are    *)
(* sequential by nature through Iterate; a value that is used more than    *)
(* once is the parameter of an operator.                                   *)
(***************************************************************************)
Base == 2^15
LimbBits == 15

Min(x, y) == IF x < y THEN x ELSE y
Max(x, y) == IF x > y THEN x ELSE y

\* the elements of a sequence, each computed once
Elements(f) == f \o <<>>

Limb(a, i) == IF i >= 1 /\ i <= Len(a) THEN a[i] ELSE 0

\* the greatest element of a non-empty set of integers
Greatest(S) == CHOOSE i \in S : \A j \in S : j <= i

\* a without its leading zero limbs
BigNorm(a) ==
    CASE a = <<>> -> a
      [] a[Len(a)] # 0 -> a
      [] OTHER -> LET S == {i \in 1..Len(a) : a[i] # 0}
                  IN  IF S = {} THEN <<>> ELSE SubSeq(a, 1, Greatest(S))

\* the big natural of an integer 0 <= n < 2^31
BigOfInt(n) == BigNorm(<<n % Base, (n \div Base) % Base, n \div (Base * Base)>>)

\* -1, 0 or 1 as a < b, a = b, a > b
BigCmp(a, b) ==
    CASE Len(a) < Len(b) -> -1
      [] Len(a) > Len(b) -> 1
      [] OTHER -> LET D == {i \in 1..Len(a) : a[i] # b[i]}
                      i == Greatest(D)
                  IN  CASE D = {} -> 0
                        [] OTHER -> IF a[i] < b[i] THEN -1 ELSE 1

\* the big natural sum of d[k] * Base^(k-1), for digits 0 <= d[k] < Base^2:
\* e[k] < 2 * Base after the high halves are moved up, and then a carry of 1
\* enters limb k when one is generated below k and passed on up to k
CarryIn(e, k) ==
    /\ k > 1
    /\ \/ e[k - 1] >= Base
       \/ /\ e[k - 1] = Base - 1
          /\ \E j \in 1..(k - 2) :
                /\ e[j] >= Base
                /\ \A l \in (j + 1)..(k - 2) : e[l] = Base - 1

Propagate(e) ==
    BigNorm(Elements([k \in 1..(Len(e) + 1) |->
        (Limb(e, k) + IF CarryIn(e, k) THEN 1 ELSE 0) % Base]))

Carry(d) ==
    IF d = <<>> THEN <<>>
    ELSE Propagate(Elements([k \in 1..(Len(d) + 1) |->
             (Limb(d, k) % Base) + (Limb(d, k - 1) \div Base)]))

BigAdd(a, b) ==
    CASE a = <<>> -> b
      [] b = <<>> -> a
      [] OTHER -> Carry(Elements([k \in 1..Max(Len(a), Len(b)) |->
                      Limb(a, k) + Limb(b, k)]))

\* a - b, for a >= b: a borrow enters limb k when one is generated below k
\* and passed on up to k
BorrowIn(s, k) ==
    /\ k > 1
    /\ \/ s[k - 1] < 0
       \/ /\ s[k - 1] = 0
          /\ \E j \in 1..(k - 2) :
                /\ s[j] < 0
                /\ \A l \in (j + 1)..(k - 2) : s[l] = 0

Borrow(s) ==
    BigNorm(Elements([k \in 1..Len(s) |->
        (s[k] - IF BorrowIn(s, k) THEN 1 ELSE 0) % Base]))

BigSub(a, b) ==
    CASE a = b -> <<>>
      [] b = <<>> -> a
      [] OTHER -> Borrow(Elements([k \in 1..Len(a) |-> a[k] - Limb(b, k)]))

\* a * k, for 0 <= k < Base
BigMulSmall(a, k) ==
    IF a = <<>> \/ k = 0 THEN <<>>
    ELSE Carry(Elements([i \in 1..Len(a) |-> a[i] * k]))

\* the indices i of the products a[i] * b[k + 1 - i] of column k
Column(a, b, k) == Max(1, k + 1 - Len(b))..Min(Len(a), k)

\* the sum of f[i], i in the finite set I, each f[i] >= 0
Sum(f, I) == BagCardinality([i \in I |-> f[i] + 1]) - Cardinality(I)

\* the sum of the low limbs of the products of column k
ColLo(a, b, k) ==
    Sum([i \in Column(a, b, k) |-> (a[i] * b[k + 1 - i]) % Base], Column(a, b, k))

\* the sum of the high limbs of the products of column k
ColHi(a, b, k) ==
    Sum([i \in Column(a, b, k) |-> (a[i] * b[k + 1 - i]) \div Base], Column(a, b, k))

BigMul(a, b) ==
    IF a = <<>> \/ b = <<>> THEN <<>>
    ELSE Carry(Elements([k \in 1..(Len(a) + Len(b)) |->
             ColLo(a, b, k) + ColHi(a, b, k - 1)]))

\* number of bits of 0 <= n < Base
BitLenInt(n) == Cardinality({k \in 0..(LimbBits - 1) : 2^k <= n})

\* number of bits of a (0 for zero)
BigBitLen(a) ==
    IF a = <<>> THEN 0 ELSE LimbBits * (Len(a) - 1) + BitLenInt(a[Len(a)])

\* a * 2^n
BigShl(a, n) ==
    IF a = <<>> THEN <<>>
    ELSE LET q == n \div LimbBits
             r == n % LimbBits
             lo == 2^(LimbBits - r)
             hi == 2^r
         IN  BigNorm(Elements([i \in 1..(Len(a) + q + 1) |->
                 IF i <= q THEN 0
                 ELSE (Limb(a, i - q) % lo) * hi + (Limb(a, i - q - 1) \div lo)]))

\* floor(a / 2^n)
BigShr(a, n) ==
    LET q == n \div LimbBits
        r == n % LimbBits
        lo == 2^r
        hi == 2^(LimbBits - r)
    IN  IF Len(a) <= q THEN <<>>
        ELSE BigNorm(Elements([i \in 1..(Len(a) - q) |->
                 (a[i + q] \div lo) + (Limb(a, i + q + 1) % lo) * hi]))

BigIsOdd(a) == a # <<>> /\ a[1] % 2 = 1

\* the state after F is applied to s until s.done, 2^k times at most
Iterate(F(_), k, s) ==
    LET It[j \in 0..k] ==
            [x \in Any |-> CASE x.done -> x
                              [] j = 0 -> F(x)
                              [] OTHER -> It[j - 1][It[j - 1][x]]]
    IN  It[k][s]

\* one step of the short division: limb i of a, from the top, into the
\* remainder r
DivSmallStep(s) ==
    LET cur == s.r * Base + s.a[s.i]
    IN  [s EXCEPT !.q = <<cur \div s.k>> \o s.q, !.r = cur % s.k,
                  !.i = s.i - 1, !.done = (s.i = 1)]

\* floor(a / k), for 0 < k < Base
BigDivSmall(a, k) ==
    IF a = <<>> THEN <<>>
    ELSE BigNorm(Iterate(DivSmallStep, BitLenInt(Len(a) - 1),
                         [a |-> a, k |-> k, i |-> Len(a), q |-> <<>>, r |-> 0,
                          done |-> FALSE]).q)

\* the largest digit q with q * d <= r, starting from the estimate q
RECURSIVE BigDigitFix(_, _, _)
BigDigitFix(r, d, q) ==
    IF BigCmp(BigMulSmall(d, q), r) = 1 THEN BigDigitFix(r, d, q - 1) ELSE q

\* one digit of the long division: floor(r / d) for r < d * Base, d's top limb
\* at least Base / 2
BigDigit(r, d) ==
    IF BigCmp(r, d) = -1 THEN 0
    ELSE LET top == d[Len(d)]
             two == Limb(r, Len(d) + 1) * Base + Limb(r, Len(d))
         IN  BigDigitFix(r, d, Min(two \div top, Base - 1))

\* the long division of n by d > 0 before its first step: both shifted to
\* bring the top limb of d to Base / 2 at least
DivShifted(n, d, sh) ==
    [n |-> n, d |-> d, sh |-> sh, i |-> Len(n), q |-> <<>>, r |-> <<>>,
     done |-> n = <<>>]

DivStart(n, d) ==
    DivShifted(BigShl(n, LimbBits - BitLenInt(d[Len(d)])),
               BigShl(d, LimbBits - BitLenInt(d[Len(d)])),
               LimbBits - BitLenInt(d[Len(d)]))

\* one step of the long division: limb i of n, from the top, into the
\* remainder r, and the digit of the quotient it gives
DivTake(s, r, q) ==
    [s EXCEPT !.q = <<q>> \o s.q, !.r = BigSub(r, BigMulSmall(s.d, q)),
              !.i = s.i - 1, !.done = (s.i = 1)]

DivDigit(s, r) == DivTake(s, r, BigDigit(r, s.d))

DivStep(s) == DivDigit(s, BigNorm(<<s.n[s.i]>> \o s.r))

\* <<floor(n / d), n mod d>>, for d > 0
DivResult(s) == <<BigNorm(s.q), BigShr(s.r, s.sh)>>

BigDivMod(n, d) == DivResult(Iterate(DivStep, BitLenInt(Len(n)), DivStart(n, d)))

BigDiv(n, d) == BigDivMod(n, d)[1]

\* one step of Newton's iteration from above, x to (x + n / x) / 2 as long
\* as that is less: a step of the division n / x, or, when that is done,
\* the new x and the division by it
SqrtNext(s, y) ==
    IF BigCmp(y, s.x) = -1 THEN [s EXCEPT !.x = y, !.div = DivStart(s.n, y)]
    ELSE [s EXCEPT !.done = TRUE]

SqrtStep(s) ==
    IF s.div.done THEN SqrtNext(s, BigShr(BigAdd(s.x, BigNorm(s.div.q)), 1))
    ELSE [s EXCEPT !.div = DivStep(s.div)]

\* the floor of the square root: Newton's iteration squares the error, so
\* it takes no more rounds than the bit length of the number of bits, and
\* three; a round is a division and a step
SqrtFrom(n, x) ==
    Iterate(SqrtStep, BitLenInt((BitLenInt(BigBitLen(n)) + 3) * (Len(n) + 2)),
            [n |-> n, x |-> x, div |-> DivStart(n, x), done |-> FALSE]).x

BigSqrt(n) ==
    IF n = <<>> THEN <<>> ELSE SqrtFrom(n, BigShl(<<1>>, (BigBitLen(n) + 1) \div 2))

(***************************************************************************)
(* binary64 values: [c, s, m, e] with c the class ("nan", "inf", "fin"),   *)
(* s the sign bit, and for a finite value the magnitude m * 2^e, m a big   *)
(* natural: of MantBits bits when e > EMin (normal), of at most MantBits   *)
(* bits when e = EMin (subnormal, or the least normal), <<>> for zero.     *)
(* Every value has one representation, so = on records is identity of     *)
(* bit patterns (all NaNs taken as one); FEq is the numeric ==.            *)
(***************************************************************************)
MantBits == 53
EMin == 0 - 1074
EMax == 1023

FNaN == [c |-> "nan", s |-> 0, m |-> <<>>, e |-> 0]
FInf(s) == [c |-> "inf", s |-> s, m |-> <<>>, e |-> 0]
FZero(s) == [c |-> "fin", s |-> s, m |-> <<>>, e |-> 0]

IsNaN(x) == x.c = "nan"
IsInf(x) == x.c = "inf"
IsFinite(x) == x.c = "fin"
IsZero(x) == x.c = "fin" /\ x.m = <<>>

\* m * 2^e, or the infinity it overflows to
FFinite(s, m, e) ==
    IF e + BigBitLen(m) - 1 > EMax THEN FInf(s)
    ELSE [c |-> "fin", s |-> s, m |-> m, e |-> e]

\* m * 2^e with m of at most MantBits + 1 bits and e >= EMin: 2^MantBits
\* renormalised
FPack(s, m, e) ==
    CASE m = <<>> -> FZero(s)
      [] BigBitLen(m) > MantBits -> FFinite(s, BigShr(m, 1), e + 1)
      [] OTHER -> FFinite(s, m, e)

\* to nearest, ties to even: up when the remainder is more than a half
\* (cmp = 1), or a half (cmp = 0) and either something was left out before
\* (sticky) or q is odd
RoundUp(q, cmp, sticky) == cmp = 1 \/ (cmp = 0 /\ (sticky \/ BigIsOdd(q)))

\* m / 2^sh to the nearest integer, q its floor
Nearest(m, sh, q, sticky) ==
    IF RoundUp(q, BigCmp(BigSub(m, BigShl(q, sh)), BigShl(<<1>>, sh - 1)), sticky)
    THEN BigAdd(q, <<1>>)
    ELSE q

\* m * 2^e rounded to a multiple of 2^E
FRoundTo(s, m, e, E, sticky) ==
    FPack(s,
          IF E <= e THEN BigShl(m, e - E)
          ELSE Nearest(m, E - e, BigShr(m, E - e), sticky),
          E)

\* round to nearest, ties to even, the exact value m * 2^e (a little more
\* than that when sticky)
FRound(s, m, e, sticky) ==
    IF m = <<>> THEN FZero(s)
    ELSE FRoundTo(s, m, e, Max(e + BigBitLen(m) - MantBits, EMin), sticky)

\* the value of magnitude m < 2^MantBits, which needs no rounding
FExact(s, m) ==
    IF m = <<>> THEN FZero(s)
    ELSE [c |-> "fin", s |-> s, m |-> BigShl(m, MantBits - BigBitLen(m)),
          e |-> BigBitLen(m) - MantBits]

\* the binary64 value of an integer literal
FInt(n) == FExact(IF n < 0 THEN 1 ELSE 0, BigOfInt(IF n < 0 THEN 0 - n ELSE n))

\* n * 2^e, for an integer n
FDyadic(n, e) ==
    FRound(IF n < 0 THEN 1 ELSE 0, BigOfInt(IF n < 0 THEN 0 - n ELSE n), e, FALSE)

FNeg(x) == IF IsNaN(x) THEN x ELSE [x EXCEPT !.s = 1 - x.s]
FAbs(x) == IF IsNaN(x) THEN x ELSE [x EXCEPT !.s = 0]

\* -1, 0, 1 as |x| < |y|, |x| = |y|, |x| > |y|, for finite x and y
FCmpMag(x, y) ==
    CASE x.m = <<>> /\ y.m = <<>> -> 0
      [] x.m = <<>> -> -1
      [] y.m = <<>> -> 1
      [] BigBitLen(x.m) + x.e < BigBitLen(y.m) + y.e -> -1
      [] BigBitLen(x.m) + x.e > BigBitLen(y.m) + y.e -> 1
      [] OTHER -> BigCmp(BigShl(x.m, x.e - Min(x.e, y.e)),
                         BigShl(y.m, y.e - Min(x.e, y.e)))

\* the numeric comparisons of IEEE 754: all false on a NaN, -0 = +0
FLt(x, y) ==
    CASE IsNaN(x) \/ IsNaN(y) -> FALSE
      [] IsInf(x) /\ IsInf(y) -> x.s = 1 /\ y.s = 0
      [] IsInf(x) -> x.s = 1
      [] IsInf(y) -> y.s = 0
      [] IsZero(x) /\ IsZero(y) -> FALSE
      [] IsZero(x) -> y.s = 0
      [] IsZero(y) -> x.s = 1
      [] x.s # y.s -> x.s = 1
      [] OTHER -> FCmpMag(x, y) = (IF x.s = 0 THEN -1 ELSE 1)

FEq(x, y) ==
    /\ ~IsNaN(x) /\ ~IsNaN(y)
    /\ (x = y \/ (IsZero(x) /\ IsZero(y)))

FLe(x, y) == FLt(x, y) \/ FEq(x, y)

\* the sign of the sum of two finite values of signs xs and ys, cmp the
\* comparison of their magnitudes
SumSign(xs, ys, cmp) ==
    CASE xs = ys -> xs
      [] cmp = 1 -> xs
      [] cmp = 0 -> 0
      [] OTHER -> ys

\* the magnitude of that sum, mx and my the magnitudes in a common unit
SumMag(xs, ys, mx, my, cmp) ==
    CASE xs = ys -> BigAdd(mx, my)
      [] cmp = 1 -> BigSub(mx, my)
      [] cmp = 0 -> <<>>
      [] OTHER -> BigSub(my, mx)

AddCompared(xs, ys, mx, my, e0, cmp) ==
    FRound(SumSign(xs, ys, cmp), SumMag(xs, ys, mx, my, cmp), e0, FALSE)

AddAligned(xs, ys, mx, my, e0) == AddCompared(xs, ys, mx, my, e0, BigCmp(mx, my))

FAdd(x, y) ==
    CASE IsNaN(x) \/ IsNaN(y) -> FNaN
      [] IsInf(x) /\ IsInf(y) /\ y.s # x.s -> FNaN
      [] IsInf(x) -> x
      [] IsInf(y) -> y
      [] IsZero(x) /\ IsZero(y) -> FZero(IF x.s = 1 /\ y.s = 1 THEN 1 ELSE 0)
      [] IsZero(x) -> y
      [] IsZero(y) -> x
      [] x.e - y.e > MantBits + 10 -> x
      [] y.e - x.e > MantBits + 10 -> y
      [] OTHER -> AddAligned(x.s, y.s, BigShl(x.m, x.e - Min(x.e, y.e)),
                             BigShl(y.m, y.e - Min(x.e, y.e)), Min(x.e, y.e))

FSub(x, y) == FAdd(x, FNeg(y))

FMul(x, y) ==
    CASE IsNaN(x) \/ IsNaN(y) -> FNaN
      [] (IsInf(x) \/ IsInf(y)) /\ (IsZero(x) \/ IsZero(y)) -> FNaN
      [] IsInf(x) \/ IsInf(y) -> FInf((x.s + y.s) % 2)
      [] IsZero(x) \/ IsZero(y) -> FZero((x.s + y.s) % 2)
      [] OTHER -> FRound((x.s + y.s) % 2, BigMul(x.m, y.m), x.e + y.e, FALSE)

\* the quotient qr[1] * 2^e, sticky when the remainder qr[2] is not zero
DivRound(s, qr, e) == FRound(s, qr[1], e, qr[2] # <<>>)

\* x / y from the integer quotient of x.m * 2^k by y.m
DivScaled(x, y, k) ==
    DivRound((x.s + y.s) % 2, BigDivMod(BigShl(x.m, k), y.m), x.e - y.e - k)

\* the IEEE quotient: x / 0 is an infinity, 0 / 0 a NaN
FDiv(x, y) ==
    CASE IsNaN(x) \/ IsNaN(y) -> FNaN
      [] IsInf(x) /\ IsInf(y) -> FNaN
      [] IsInf(x) -> FInf((x.s + y.s) % 2)
      [] IsInf(y) -> FZero((x.s + y.s) % 2)
      [] IsZero(y) /\ IsZero(x) -> FNaN
      [] IsZero(y) -> FInf((x.s + y.s) % 2)
      [] IsZero(x) -> FZero((x.s + y.s) % 2)
      [] OTHER -> DivScaled(x, y, MantBits + 7 + BigBitLen(y.m) - BigBitLen(x.m))

\* the root r of n, sticky unless n is a square
SqrtRound(n, r, e) == FRound(0, r, e, BigMul(r, r) # n)

SqrtScaled(n, e) == SqrtRound(n, BigSqrt(n), e)

\* sqrt(x) from the integer root of x.m * 2^k, x.e - k even
SqrtEven(x, k) == SqrtScaled(BigShl(x.m, k), (x.e - k) \div 2)

SqrtOdd(x, k) == SqrtEven(x, k + ((x.e - k) % 2))

FSqrt(x) ==
    CASE IsNaN(x) -> FNaN
      [] IsZero(x) -> x
      [] x.s = 1 -> FNaN
      [] IsInf(x) -> x
      [] OTHER -> SqrtOdd(x, 2 * MantBits + 6 - BigBitLen(x.m))

(***************************************************************************)
(* The elementary functions numpy takes from the C library: computed in    *)
(* fixed point with FracBits fraction bits (a big natural v stands for     *)
(* v / 2^FracBits) and rounded once to binary64.                           *)
(***************************************************************************)
FracBits == 120

\* floor(pi * 2^FracBits)
PiFix == <<28787, 23558, 26152, 6296, 12429, 4276, 23202, 4639, 3>>
PiHalfFix == BigShr(PiFix, 1)
OneFix == BigShl(<<1>>, FracBits)

\* np.pi
FPi == FRound(0, PiFix, 0 - FracBits, TRUE)

FixMul(a, b) == BigShr(BigMul(a, b), FracBits)

\* a series below has no more than FracBits / 2 terms that are not zero
SeriesBits == BitLenInt(FracBits \div 2)

\* floor(m * 2^(e + FracBits))
FixOf(m, e) ==
    IF e + FracBits >= 0 THEN BigShl(m, e + FracBits)
    ELSE BigShr(m, 0 - (e + FracBits))

\* the term s.t of index s.n taken into its sum, and t the term after it
AltTake(s, t, sum) ==
    [s EXCEPT !.t = t, !.n = s.n + 1,
              !.pos = IF s.n % 2 = 0 THEN sum ELSE s.pos,
              !.neg = IF s.n % 2 = 1 THEN sum ELSE s.neg,
              !.done = (t = <<>>)]

\* one term of the series below
AltStep(s) ==
    AltTake(s,
            BigDivSmall(FixMul(s.t, s.xx),
                        (2 * s.n + 1 + s.off) * (2 * s.n + 2 + s.off)),
            BigAdd(IF s.n % 2 = 0 THEN s.pos ELSE s.neg, s.t))

AltSum(s) == BigSub(s.pos, s.neg)

\* sum over n of (-1)^n * xx^n / ((2n + off)!), up to the first term that is
\* zero: off = 0, the cosine of x; off = 1, sin(x) / x; xx is x^2
AltSeries(xx, off) ==
    AltSum(Iterate(AltStep, SeriesBits,
                   [t |-> OneFix, xx |-> xx, n |-> 0, off |-> off,
                    pos |-> <<>>, neg |-> <<>>, done |-> FALSE]))

AsinTake(s, t) ==
    [s EXCEPT !.t = t, !.n = s.n + 1, !.sum = BigAdd(s.sum, s.t),
              !.done = (t = <<>>)]

\* one term of the series below
AsinStep(s) ==
    AsinTake(s, BigDivSmall(BigMulSmall(FixMul(s.t, s.xx),
                                        (2 * s.n + 1) * (2 * s.n + 1)),
                            (2 * s.n + 2) * (2 * s.n + 3)))

\* asin(x) / x = sum over n of c(n) * xx^n, c(n) = c(n-1) * (2n-1)^2 / (2n * (2n+1)),
\* for xx = x^2 <= 1/4
AsinOverXFix(xx) ==
    Iterate(AsinStep, SeriesBits,
            [t |-> OneFix, xx |-> xx, n |-> 0, sum |-> <<>>, done |-> FALSE]).sum

\* k and r of |x| = k * pi/2 + r, 0 <= r < pi/2, from the quotient and the
\* remainder qr of |x| by pi/2; xx the square of r, taken from x itself when
\* k = 0 (a small x keeps all its bits)
Reduced(x, qr) ==
    [k |-> Limb(qr[1], 1) % 4,
     r |-> qr[2],
     small |-> qr[1] = <<>>,
     xx |-> IF qr[1] = <<>> THEN FixOf(BigMul(x.m, x.m), 2 * x.e)
            ELSE FixMul(qr[2], qr[2])]

Quadrant(x) == Reduced(x, BigDivMod(FixOf(x.m, x.e), PiHalfFix))

\* mult * (the series of xx) / 2^shift * 2^e, rounded
WaveRound(s, mult, xx, off, shift, e) ==
    FRound(s, BigShr(BigMul(mult, AltSeries(xx, off)), shift), e, TRUE)

\* (-1)^s * sin(|x| + j * pi/2), q the reduction of |x|: sin r, cos r,
\* -sin r, -cos r for j = 0, 1, 2, 3; the sine of a small x is x times the
\* series, x with all its bits
WaveAt(x, q, s, j) ==
    WaveRound(IF j >= 2 THEN 1 - s ELSE s,
              CASE j % 2 = 1 -> OneFix
                [] q.small -> x.m
                [] OTHER -> q.r,
              q.xx,
              1 - (j % 2),
              IF q.small /\ j % 2 = 0 THEN 0 ELSE FracBits,
              IF q.small /\ j % 2 = 0 THEN x.e - FracBits ELSE 0 - FracBits)

Wave(x, q, s, shift) == WaveAt(x, q, s, (q.k + shift) % 4)

\* np.sin
FSin(x) ==
    CASE ~IsFinite(x) -> FNaN
      [] IsZero(x) -> x
      [] OTHER -> Wave(x, Quadrant(x), x.s, 0)

\* np.cos
FCos(x) ==
    CASE ~IsFinite(x) -> FNaN
      [] IsZero(x) -> FInt(1)
      [] OTHER -> Wave(x, Quadrant(x), 0, 1)

\* mult * num / den * 2^e, rounded
TanRound(s, mult, num, den, e) ==
    FRound(s, BigMul(mult, BigDiv(BigShl(num, FracBits), den)), e, TRUE)

\* sn / cs, or -cs / sn in an odd quadrant; for a small x, x times the
\* quotient of the series
TanOf(x, q, sn, cs) ==
    TanRound(IF q.k % 2 = 1 THEN 1 - x.s ELSE x.s,
             IF q.small THEN x.m ELSE <<1>>,
             IF q.k % 2 = 1 THEN cs ELSE sn,
             IF q.k % 2 = 1 THEN sn ELSE cs,
             IF q.small THEN x.e - FracBits ELSE 0 - FracBits)

TanReduced(x, q) ==
    TanOf(x, q,
          FixMul(IF q.small THEN OneFix ELSE q.r, AltSeries(q.xx, 1)),
          AltSeries(q.xx, 0))

\* np.tan
FTan(x) ==
    CASE ~IsFinite(x) -> FNaN
      [] IsZero(x) -> x
      [] OTHER -> TanReduced(x, Quadrant(x))

\* x * a for |x| <= 1/2, a the series of x^2; else pi/2 - 2 * sq * a, sq the
\* root of w = (1 - |x|) / 2 and a the series of w
AsinRound(x, small, a, sq) ==
    FRound(x.s,
           IF small THEN BigMul(x.m, a)
           ELSE BigSub(PiHalfFix, BigShl(FixMul(sq, a), 1)),
           IF small THEN x.e - FracBits ELSE 0 - FracBits,
           TRUE)

AsinOf(x, small, w) ==
    AsinRound(x, small,
              AsinOverXFix(IF small THEN FixOf(BigMul(x.m, x.m), 2 * x.e) ELSE w),
              BigSqrt(BigShl(w, FracBits)))

\* np.arcsin: NaN outside [-1, 1]; for |x| > 1/2,
\* asin(|x|) = pi/2 - 2 * asin(sqrt((1 - |x|) / 2))
FAsin(x) ==
    CASE IsNaN(x) \/ IsInf(x) -> FNaN
      [] IsZero(x) -> x
      [] FCmpMag(x, FInt(1)) = 1 -> FNaN
      [] OTHER -> AsinOf(x, FCmpMag(x, FDyadic(1, -1)) # 1,
                         BigShr(BigSub(OneFix, FixOf(x.m, x.e)), 1))

\* np.deg2rad and np.radians: x * (pi / 180), the factor rounded first
FDeg2Rad(x) == FMul(x, FDiv(FPi, FInt(180)))

(***************************************************************************)
(* Python and numpy operands.  [k, v, x]: k = "py" a Python float, "np" a  *)
(* numpy float64 scalar (what a ufunc returns for a Python float), "nd" a  *)
(* 1-D float64 ndarray, "exc" a raised exception, "none" no value; v the   *)
(* elements (one for a scalar); x the exception's name.                    *)
(***************************************************************************)
PyFloat(f) == [k |-> "py", v |-> <<f>>, x |-> ""]
NpFloat(f) == [k |-> "np", v |-> <<f>>, x |-> ""]
NdArray(fs) == [k |-> "nd", v |-> fs, x |-> ""]
Raise(name) == [k |-> "exc", v |-> <<>>, x |-> name]
PNone == [k |-> "none", v |-> <<>>, x |-> ""]

IsExc(p) == p.k = "exc"
IsScalar(p) == p.k = "py" \/ p.k = "np"

\* numpy's broadcasting of two 1-D shapes (a scalar has none): equal lengths,
\* or a length of 1 stretched to the other
Broadcastable(p, q) ==
    IsScalar(p) \/ IsScalar(q) \/ Len(p.v) = Len(q.v) \/ Len(p.v) = 1 \/ Len(q.v) = 1

BroadcastLen(p, q) == Max(Len(p.v), Len(q.v))

\* a variant with a seeded fault: every element of the broadcast is the first
AtFirst(p, i) == p.v[1]

\* element i of p in the broadcast
At(p, i) == IF Len(p.v) = 1 THEN p.v[1] ELSE p.v[i]

\* the type of a binary operator's result: an ndarray if either operand is
\* one, else a numpy scalar if either is one, else a Python float
ResultKind(p, q) ==
    IF p.k = "nd" \/ q.k = "nd" THEN "nd"
    ELSE IF p.k = "np" \/ q.k = "np" THEN "np"
    ELSE "py"

\* a binary arithmetic operator, op(_, _) its binary64 operation: the operands
\* are evaluated left to right, so the left one's exception is the one raised
Binary(p, q, op(_, _)) ==
    CASE p.k = "exc" -> p
      [] q.k = "exc" -> q
      [] ~Broadcastable(p, q) -> Raise("ValueError")
      [] OTHER -> [k |-> ResultKind(p, q),
                   v |-> Elements([i \in 1..BroadcastLen(p, q) |->
                             op(At(p, i), At(q, i))]),
                   x |-> ""]

PAdd(p, q) == Binary(p, q, FAdd)
PSub(p, q) == Binary(p, q, FSub)
PMul(p, q) == Binary(p, q, FMul)

\* p / q: float.__truediv__ raises on a zero divisor; numpy divides as IEEE
\* does (and warns)
PDiv(p, q) ==
    IF p.k = "py" /\ q.k = "py" /\ IsZero(q.v[1])
    THEN Raise("ZeroDivisionError")
    ELSE Binary(p, q, FDiv)

\* p ** 2: float.__pow__ raises when the result overflows; numpy squares
Squared(p, sq) ==
    IF p.k = "py" /\ IsFinite(p.v[1]) /\ IsInf(sq[1]) THEN Raise("OverflowError")
    ELSE [p EXCEPT !.v = sq]

PSquare(p) ==
    IF p.k = "exc" THEN p
    ELSE Squared(p, Elements([i \in 1..Len(p.v) |-> FMul(p.v[i], p.v[i])]))

\* a numpy ufunc of one argument: an ndarray for an ndarray, a numpy scalar
\* for a scalar; a domain error is a NaN (and a warning), never an exception
Ufunc(p, f(_)) ==
    IF p.k = "exc" THEN p
    ELSE [k |-> IF p.k = "nd" THEN "nd" ELSE "np",
          v |-> Elements([i \in 1..Len(p.v) |-> f(p.v[i])]),
          x |-> ""]

NpSqrt(p) == Ufunc(p, FSqrt)
NpSin(p) == Ufunc(p, FSin)
NpTan(p) == Ufunc(p, FTan)

\* variants with a seeded fault: the sine taken for the cosine, and for the
\* arcsine
NpCosAsSin(p) == Ufunc(p, FSin)
NpArcsinAsSin(p) == Ufunc(p, FSin)

NpCos(p) == Ufunc(p, FCos)
NpArcsin(p) == Ufunc(p, FAsin)
NpDeg2Rad(p) == Ufunc(p, FDeg2Rad)
NpRadians(p) == Ufunc(p, FDeg2Rad)
NpPi == PyFloat(FPi)

(***************************************************************************)
(* qual.py                                                                 *)
(***************************************************************************)
\* the default earth radius re
DefaultRe == 6371000

\* a variant with a seeded fault: the degrees flag is ignored
ToRadiansIgnoringFlag(elevations, degrees) == elevations

\* if degrees: elev = np.deg2rad(elevations) else: elev = elevations
ToRadians(elevations, degrees) ==
    IF degrees THEN NpDeg2Rad(elevations) ELSE elevations

beam_height_ft(ranges, elevations, degrees, re) ==
    LET elev == ToRadians(elevations, degrees)
    IN  PAdd(PDiv(PMul(PSquare(ranges), PSquare(NpCos(elev))),
                  PMul(PMul(PyFloat(FInt(2)), PDiv(PyFloat(FInt(4)), PyFloat(FInt(3)))), re)),
             PMul(ranges, NpSin(elev)))

\* a variant with a seeded fault: the earth radius without its factor 4/3
beam_height_ft_doviak_re(ranges, elevations, degrees, re) ==
    LET elev == ToRadians(elevations, degrees)
        reft == re
    IN  PSub(NpSqrt(PAdd(PAdd(PSquare(ranges), PSquare(reft)),
                         PMul(PMul(PMul(PyFloat(FInt(2)), ranges), reft), NpSin(elev)))),
             reft)

beam_height_ft_doviak(ranges, elevations, degrees, re) ==
    LET elev == ToRadians(elevations, degrees)
        reft == PMul(PDiv(PyFloat(FInt(4)), PyFloat(FInt(3))), re)
    IN  PSub(NpSqrt(PAdd(PAdd(PSquare(ranges), PSquare(reft)),
                         PMul(PMul(PMul(PyFloat(FInt(2)), ranges), reft), NpSin(elev)))),
             reft)

\* a variant with a seeded fault: ranges not squared
pulse_volume_linear(ranges, h, theta) ==
    PMul(PMul(PMul(NpPi, h), ranges), PSquare(NpTan(NpRadians(theta))))

pulse_volume(ranges, h, theta) ==
    PMul(PMul(PMul(NpPi, h), PSquare(ranges)), PSquare(NpTan(NpRadians(theta))))

\* a variant with a seeded fault: the half circle pi * a^2 / 2 not halved
beam_block_frac_whole(Th, Bh, a) ==
    LET y == PSub(Th, Bh)
        Numer == PAdd(PAdd(PMul(y, NpSqrt(PSub(PSquare(a), PSquare(y)))),
                           PMul(PSquare(a), NpArcsin(PDiv(y, a)))),
                      PMul(NpPi, PSquare(a)))
        Denom == PMul(NpPi, PSquare(a))
    IN  PDiv(Numer, Denom)

\* y kept within [-|a|, |a|], element by element
Clip(y, a) ==
    [y EXCEPT !.v = Elements([i \in 1..Len(y.v) |->
        CASE FLt(FAbs(At(a, i)), y.v[i]) -> FAbs(At(a, i))
          [] FLt(y.v[i], FNeg(FAbs(At(a, i)))) -> FNeg(FAbs(At(a, i)))
          [] OTHER -> y.v[i]])]

\* a variant that guards the domain: y is clipped to the half-power radius
beam_block_frac_clipped(Th, Bh, a) ==
    LET y == Clip(PSub(Th, Bh), a)
        Numer == PAdd(PAdd(PMul(y, NpSqrt(PSub(PSquare(a), PSquare(y)))),
                           PMul(PSquare(a), NpArcsin(PDiv(y, a)))),
                      PDiv(PMul(NpPi, PSquare(a)), PyFloat(FInt(2))))
        Denom == PMul(NpPi, PSquare(a))
    IN  PDiv(Numer, Denom)

beam_block_frac(Th, Bh, a) ==
    LET y == PSub(Th, Bh)
        Numer == PAdd(PAdd(PMul(y, NpSqrt(PSub(PSquare(a), PSquare(y)))),
                           PMul(PSquare(a), NpArcsin(PDiv(y, a)))),
                      PDiv(PMul(NpPi, PSquare(a)), PyFloat(FInt(2))))
        Denom == PMul(NpPi, PSquare(a))
        PBB == PDiv(Numer, Denom)
    IN  PBB

(***************************************************************************)
(* The state machine: a caller holds one pending call of one of the four   *)
(* functions (pc = "call"), and the call returns its value or raises       *)
(* (pc = "done").  The arguments come from tables of sample rows: a call   *)
(* with Python floats takes one row, a call with arrays the columns of     *)
(* consecutive rows.                                                       *)
(***************************************************************************)
VARIABLES pc, fn, args, ret

vars == <<pc, fn, args, ret>>

\* the longest array argument
MaxLen == 2

\* the float a Python literal n / 10 denotes, 0.7 for n = 7
Tenths(n) == FDiv(FInt(n), FInt(10))

\* the rows <<A[i], B[j], C[k]>>, the first column changing fastest
Rows(A, B, C) ==
    Elements([n \in 1..(Len(A) * Len(B) * Len(C)) |->
        <<A[((n - 1) % Len(A)) + 1],
          B[(((n - 1) \div Len(A)) % Len(B)) + 1],
          C[((n - 1) \div (Len(A) * Len(B))) + 1]>>])

\* ranges [m], elevations [degrees or radians], re [m]
HeightRows ==
    Rows(<<FInt(0), FInt(1000), FInt(50000)>>,
         <<FInt(0), FInt(1), FInt(10)>>,
         <<FInt(DefaultRe), FInt(6378137)>>)

\* ranges [m], h [m], theta [degrees]
VolumeRows ==
    Rows(<<FInt(0), FInt(1000), FInt(50000)>>,
         <<FInt(150), FInt(300)>>,
         <<FInt(1), FInt(90)>>)

\* Th [m], Bh [m], a [m]; 0.1 * 7 is 0.7000000000000001
BlockRows ==
    Rows(<<FInt(0), FInt(1), FInt(-1), FInt(2), Tenths(7)>>,
         <<FInt(0), FInt(1)>>,
         <<FInt(1), FInt(0), FInt(-2), FMul(Tenths(1), FInt(7))>>)

\* the shapes of a call on the rows T: <<i, 1, "py">> Python floats of row i;
\* <<i, n, "nd">> arrays of rows i .. i + n - 1; <<i, n, "bc">> the first
\* argument such an array and the others Python floats of row i
Shapes(T) ==
    {<<i, 1, "py">> : i \in 1..Len(T)} \cup
    {s \in (1..Len(T)) \X (2..MaxLen) \X {"nd", "bc"} : s[1] + s[2] - 1 <= Len(T)}

\* argument c of a call of shape s on the rows T
Arg(T, c, s) ==
    IF s[3] = "nd" \/ (s[3] = "bc" /\ c = 1)
    THEN NdArray(Elements([k \in 1..s[2] |-> T[s[1] + k - 1][c]]))
    ELSE PyFloat(T[s[1]][c])

HeightCalls ==
    {[ranges |-> Arg(HeightRows, 1, s), elevations |-> Arg(HeightRows, 2, s),
      degrees |-> d, re |-> PyFloat(HeightRows[s[1]][3])] :
        s \in Shapes(HeightRows), d \in BOOLEAN}

VolumeCalls ==
    {[ranges |-> Arg(VolumeRows, 1, s), h |-> Arg(VolumeRows, 2, s),
      theta |-> Arg(VolumeRows, 3, s)] : s \in Shapes(VolumeRows)}

BlockCalls ==
    {[Th |-> Arg(BlockRows, 1, s), Bh |-> Arg(BlockRows, 2, s),
      a |-> Arg(BlockRows, 3, s)] : s \in Shapes(BlockRows)}

Init ==
    /\ pc = "call"
    /\ ret = PNone
    /\ \/ fn \in {"beam_height_ft", "beam_height_ft_doviak"} /\ args \in HeightCalls
       \/ fn = "pulse_volume" /\ args \in VolumeCalls
       \/ fn = "beam_block_frac" /\ args \in BlockCalls

BeamHeightFt ==
    /\ pc = "call"
    /\ fn = "beam_height_ft"
    /\ ret' = beam_height_ft(args.ranges, args.elevations, args.degrees, args.re)
    /\ pc' = "done"
    /\ UNCHANGED <<fn, args>>

BeamHeightFtDoviak ==
    /\ pc = "call"
    /\ fn = "beam_height_ft_doviak"
    /\ ret' = beam_height_ft_doviak(args.ranges, args.elevations, args.degrees, args.re)
    /\ pc' = "done"
    /\ UNCHANGED <<fn, args>>

PulseVolume ==
    /\ pc = "call"
    /\ fn = "pulse_volume"
    /\ ret' = pulse_volume(args.ranges, args.h, args.theta)
    /\ pc' = "done"
    /\ UNCHANGED <<fn, args>>

BeamBlockFrac ==
    /\ pc = "call"
    /\ fn = "beam_block_frac"
    /\ ret' = beam_block_frac(args.Th, args.Bh, args.a)
    /\ pc' = "done"
    /\ UNCHANGED <<fn, args>>

Next == BeamHeightFt \/ BeamHeightFtDoviak \/ PulseVolume \/ BeamBlockFrac

Spec == Init /\ [][Next]_vars


(***************************************************************************)
(* What the properties below speak of                                      *)
(***************************************************************************)
Done == pc = "done"

Heights == {"beam_height_ft", "beam_height_ft_doviak"}

\* the call f(**a)
Apply(f, a) ==
    CASE f = "beam_height_ft" ->
             beam_height_ft(a.ranges, a.elevations, a.degrees, a.re)
      [] f = "beam_height_ft_doviak" ->
             beam_height_ft_doviak(a.ranges, a.elevations, a.degrees, a.re)
      [] f = "pulse_volume" -> pulse_volume(a.ranges, a.h, a.theta)
      [] OTHER -> beam_block_frac(a.Th, a.Bh, a.a)

\* the array-like arguments of the call f(**a)
Operands(f, a) ==
    CASE f \in Heights -> <<a.ranges, a.elevations, a.re>>
      [] f = "pulse_volume" -> <<a.ranges, a.h, a.theta>>
      [] OTHER -> <<a.Th, a.Bh, a.a>>

\* the number of elements of the broadcast of the arguments
OutLen(f, a) ==
    Max(Max(Len(Operands(f, a)[1].v), Len(Operands(f, a)[2].v)),
        Len(Operands(f, a)[3].v))

\* the elements of the pending or returned call
Elems == 1..OutLen(fn, args)

\* y = Th - Bh of a beam_block_frac call, and its elements
Offset == PSub(args.Th, args.Bh)
Y(i) == At(Offset, i)
A(i) == At(args.a, i)

Half == FDiv(FInt(1), FInt(2))

\* a is neither zero nor so large or small that a ** 2 overflows or
\* underflows: 2^-500 <= |a| < 2^500
Regular(a) ==
    /\ IsFinite(a) /\ ~IsZero(a)
    /\ a.e + MantBits > 0 - 500
    /\ a.e + MantBits <= 500

Blocked == Done /\ fn = "beam_block_frac"

\* float.__truediv__ met a zero a: every argument a Python float, a = 0
ZeroRadiusFloats ==
    /\ args.Th.k = "py" /\ args.Bh.k = "py" /\ args.a.k = "py"
    /\ IsZero(args.a.v[1])

C2_NeverRaises == Done => ~IsExc(ret)

(***************************************************************************)
(* C3: where Th equals Bh, beam_block_frac returns exactly 0.5 for every   *)
(* regular radius a (not zero, a ** 2 in range), of either sign; for a = 0 *)
(* it returns NaN, or raises on Python floats.                             *)
(***************************************************************************)
C3_HalfWhenLevel ==
    Blocked =>
        \A i \in Elems : FEq(At(args.Th, i), At(args.Bh, i)) =>
            /\ Regular(A(i)) => ~IsExc(ret) /\ FEq(ret.v[i], Half)
            /\ IsZero(A(i)) => IsExc(ret) \/ IsNaN(ret.v[i])

\* C3 as stated: 0.5 for every a, zero included
C3_HalfForEveryRadius ==
    Blocked =>
        \A i \in Elems :
            FEq(At(args.Th, i), At(args.Bh, i)) =>
                ~IsExc(ret) /\ FEq(ret.v[i], Half)

\* a call with Th = Bh and a regular radius returned 0.5
C3_Witness ==
    /\ Blocked /\ ~IsExc(ret)
    /\ \E i \in Elems :
          /\ FEq(At(args.Th, i), At(args.Bh, i))
          /\ Regular(A(i))
          /\ FEq(ret.v[i], Half)

(***************************************************************************)
(* C4: for every regular radius a (not zero), beam_block_frac returns 1.0  *)
(* where Th - Bh = a and 0.0 where Th - Bh = -a.                           *)
(***************************************************************************)
C4_FullAndNoBlockage ==
    Blocked =>
        \A i \in Elems : Regular(A(i)) =>
            /\ FEq(Y(i), A(i)) => ~IsExc(ret) /\ FEq(ret.v[i], FInt(1))
            /\ FEq(Y(i), FNeg(A(i))) => ~IsExc(ret) /\ FEq(ret.v[i], FInt(0))

\* C4 as stated: for every a, zero included
C4_FullAndNoBlockageForEveryRadius ==
    Blocked =>
        \A i \in Elems :
            /\ FEq(Y(i), A(i)) => ~IsExc(ret) /\ FEq(ret.v[i], FInt(1))
            /\ FEq(Y(i), FNeg(A(i))) => ~IsExc(ret) /\ FEq(ret.v[i], FInt(0))

\* one array call returned 1.0 for an element with y = a and 0.0 for one
\* with y = -a
C4_Witness ==
    /\ Blocked /\ ~IsExc(ret)
    /\ \E i \in Elems :
          Regular(A(i)) /\ FEq(Y(i), A(i)) /\ FEq(ret.v[i], FInt(1))
    /\ \E i \in Elems :
          Regular(A(i)) /\ FEq(Y(i), FNeg(A(i))) /\ FEq(ret.v[i], FInt(0))

(***************************************************************************)
(* C5: for a positive radius a and |Th - Bh| <= a, the value returned by   *)
(* beam_block_frac lies in [0, 1].                                         *)
(***************************************************************************)
C5_InUnitInterval ==
    (Blocked /\ ~IsExc(ret)) =>
        \A i \in Elems :
            (FLt(FInt(0), A(i)) /\ FLe(FAbs(Y(i)), A(i))) =>
                FLe(FInt(0), ret.v[i]) /\ FLe(ret.v[i], FInt(1))

(***************************************************************************)
(* C6: for both beam heights, a call with degrees=True returns what the    *)
(* call with np.deg2rad(elevations) and degrees=False returns: the flag    *)
(* converts the elevations once and changes nothing else.                  *)
(***************************************************************************)
C6_DegreesFlag ==
    (Done /\ fn \in Heights /\ args.degrees) =>
        ret = Apply(fn, [args EXCEPT !.elevations = NpDeg2Rad(@),
                                     !.degrees = FALSE])

\* a call with degrees=True whose conversion mattered: the same elevations
\* taken as radians give another height
C6_Witness ==
    /\ Done /\ fn \in Heights /\ args.degrees
    /\ ret # Apply(fn, [args EXCEPT !.degrees = FALSE])
    /\ ret = Apply(fn, [args EXCEPT !.elevations = NpDeg2Rad(@),
                                    !.degrees = FALSE])

\* |p[i] - q[i]| <= rtol * max(|p[i]|, |q[i]|) + atol for every element
Close(p, q, rtol, atol) ==
    /\ ~IsExc(p) /\ ~IsExc(q)
    /\ Len(p.v) = Len(q.v)
    /\ \A i \in 1..Len(p.v) :
          FLe(FAbs(FSub(p.v[i], q.v[i])),
              FAdd(FMul(rtol, IF FLt(FAbs(p.v[i]), FAbs(q.v[i]))
                              THEN FAbs(q.v[i]) ELSE FAbs(p.v[i])),
                   atol))

\* ranges in [0, 50 km], elevations in [0, 10 degrees], the default re
NearAndLow ==
    /\ args.re.v[1] = FInt(DefaultRe)
    /\ \A i \in 1..Len(args.ranges.v) :
          FLe(FInt(0), args.ranges.v[i]) /\ FLe(args.ranges.v[i], FInt(50000))
    /\ \A i \in 1..Len(args.elevations.v) :
          /\ FLe(FInt(0), args.elevations.v[i])
          /\ FLe(ToRadians(args.elevations, args.degrees).v[i],
                 FDeg2Rad(FInt(10)))

(***************************************************************************)
(* C7: up to 50 km and 10 degrees, with the default earth radius,          *)
(* beam_height_ft and beam_height_ft_doviak differ by at most 2e-5 of the  *)
(* larger height plus 1e-8 m.                                              *)
(***************************************************************************)
C7_HeightsAgree ==
    (Done /\ fn = "beam_height_ft" /\ NearAndLow) =>
        Close(ret, Apply("beam_height_ft_doviak", args),
              FDiv(FInt(2), FInt(100000)), FDiv(FInt(1), FInt(100000000)))

\* C7 as stated: a relative tolerance of 1e-6
C7_HeightsAgreeTo1e6 ==
    (Done /\ fn = "beam_height_ft" /\ NearAndLow) =>
        Close(ret, Apply("beam_height_ft_doviak", args),
              FDiv(FInt(1), FInt(1000000)), FInt(0))

\* the two heights of a beam at 50 km and 10 degrees are close and differ
C7_Witness ==
    /\ Done /\ fn = "beam_height_ft" /\ NearAndLow
    /\ \E i \in Elems :
          /\ At(args.ranges, i) = FInt(50000)
          /\ At(ToRadians(args.elevations, args.degrees), i)
                = FDeg2Rad(FInt(10))
          /\ ret.v[i] # Apply("beam_height_ft_doviak", args).v[i]
    /\ Close(ret, Apply("beam_height_ft_doviak", args),
             FDiv(FInt(2), FInt(100000)), FDiv(FInt(1), FInt(100000000)))

\* range ** 2 / (2 * (4. / 3.) * re)
FlatHeight(ranges, re) ==
    PDiv(PSquare(ranges),
         PMul(PMul(PyFloat(FInt(2)), PDiv(PyFloat(FInt(4)), PyFloat(FInt(3)))), re))

Level == \A i \in 1..Len(args.elevations.v) : IsZero(args.elevations.v[i])

(***************************************************************************)
(* C8: with every elevation 0, beam_height_ft returns                      *)
(* range ** 2 / (2 * (4/3) * re), element by element, whatever the         *)
(* degrees flag.                                                           *)
(***************************************************************************)
C8_HeightAtZeroElevation ==
    (Done /\ fn = "beam_height_ft" /\ Level) =>
        /\ ~IsExc(ret)
        /\ Len(ret.v) = OutLen(fn, args)
        /\ \A i \in Elems :
              FEq(ret.v[i], At(FlatHeight(args.ranges, args.re), i))

\* a call with degrees=True, elevation 0 and a range that is not 0 returned
\* a height that is not 0
C8_Witness ==
    /\ Done /\ fn = "beam_height_ft" /\ Level /\ args.degrees
    /\ ~IsExc(ret)
    /\ \E i \in Elems :
          /\ ~IsZero(At(args.ranges, i))
          /\ ~IsZero(ret.v[i])
          /\ FEq(ret.v[i], At(FlatHeight(args.ranges, args.re), i))

\* the call with every range doubled
Doubled == [args EXCEPT !.ranges = PMul(PyFloat(FInt(2)), @)]

(***************************************************************************)
(* C9: pulse_volume at twice the ranges is 4 times pulse_volume, and       *)
(* pulse_volume at range 0 is 0.                                           *)
(***************************************************************************)
C9_QuadraticInRange ==
    (Done /\ fn = "pulse_volume") =>
        /\ ~IsExc(ret)
        /\ \A i \in Elems :
              /\ FEq(Apply(fn, Doubled).v[i], FMul(FInt(4), ret.v[i]))
              /\ IsZero(At(args.ranges, i)) => IsZero(ret.v[i])

\* one array call returned 0 at range 0 and, at another range, a volume that
\* is not 0 and a quarter of the volume at twice the range
C9_Witness ==
    /\ Done /\ fn = "pulse_volume" /\ ~IsExc(ret)
    /\ \E i \in Elems : IsZero(At(args.ranges, i)) /\ IsZero(ret.v[i])
    /\ \E i \in Elems :
          /\ ~IsZero(ret.v[i])
          /\ FEq(Apply(fn, Doubled).v[i], FMul(FInt(4), ret.v[i]))

\* element i of an array as an array of one element; a scalar as it is
Pick(p, i) == IF p.k = "nd" THEN NdArray(<<p.v[i]>>) ELSE p

\* the call on the elements at i alone
Picked(f, a, i) ==
    CASE f \in Heights ->
             [a EXCEPT !.ranges = Pick(@, i), !.elevations = Pick(@, i)]
      [] f = "pulse_volume" ->
             [a EXCEPT !.ranges = Pick(@, i), !.h = Pick(@, i),
                       !.theta = Pick(@, i)]
      [] OTHER ->
             [a EXCEPT !.Th = Pick(@, i), !.Bh = Pick(@, i), !.a = Pick(@, i)]

HasArray(f, a) == \E c \in 1..3 : Operands(f, a)[c].k = "nd"

(***************************************************************************)
(* C10: a call that returns is element-wise: with an array among the       *)
(* arguments the result is an array of the broadcast length (N for ranges  *)
(* of length N and scalars), and its element i is what the call on the     *)
(* arguments' elements at i alone returns.                                 *)
(***************************************************************************)
C10_Elementwise ==
    (Done /\ ~IsExc(ret)) =>
        /\ (ret.k = "nd") = HasArray(fn, args)
        /\ Len(ret.v) = OutLen(fn, args)
        /\ \A i \in Elems : ret.v[i] = Apply(fn, Picked(fn, args, i)).v[1]

\* a call with an array for ranges (or Th) and scalars for the rest returned
\* an array of that length with two elements that differ
C10_Witness ==
    /\ Done /\ ~IsExc(ret)
    /\ Operands(fn, args)[1].k = "nd"
    /\ Operands(fn, args)[2].k = "py"
    /\ Len(ret.v) = Len(Operands(fn, args)[1].v)
    /\ ret.v[1] # ret.v[2]
    /\ \A i \in Elems : ret.v[i] = Apply(fn, Picked(fn, args, i)).v[1]
====
